---- MODULE Spec2Model ----
(***************************************************************************)
(* PluginService (packages/lib/services/plugins/PluginService.ts): the      *)
(* plugin registry, the loaders for the three plugin formats (directory,   *)
(* .js bundle, .jpl package), the batch loader, install / uninstall and    *)
(* the settings sweep.                                                     *)
(*                                                                         *)
(* Strings the code inspects character by character (file names, ids) are  *)
(* sequences of one-character strings.  A text file is a sequence of       *)
(* lines.  A JavaScript object reference is a number (an oid for a Plugin, *)
(* a heap reference for a Plugins / PluginSettings mapping).               *)
(***************************************************************************)
EXTENDS Integers, Sequences, FiniteSets, TLC

\* ------------------------------------------------------------------ bounds
\* Plugin objects constructed (new Plugin) in one run of the model.
MaxObjects == 3
\* Lines of a bundle text handed to parsePluginJsBundle.
MaxLines == 5

\* ----------------------------------------------------------- program values
\* makePluginId: uslug(source).substr(0, 32)
MaxIdLen == 32
\* loadPlugin: manifestObj.app_min_version = '1.4'
BaselineVersion == <<1, 4>>
\* A version that is absent from a manifest.
NoVersion == <<>>
\* An absent / empty string (an id, a hash).
NoId == <<>>
NoHash == "none"

\* compare-versions on two-segment versions: -1, 0 or 1.
compareVersions(v1, v2) ==
  IF v1[1] # v2[1] THEN (IF v1[1] < v2[1] THEN -1 ELSE 1)
  ELSE IF v1[2] # v2[2] THEN (IF v1[2] < v2[2] THEN -1 ELSE 1)
  ELSE 0

\* ----------------------------------------------------------------- strings
Letters == {"a", "b", "p", "x", "z", "A"}
Lower(c) == IF c = "A" THEN "a" ELSE c

\* uslug: letters and digits are kept lower-cased, a space becomes a dash,
\* the allowed characters - _ ~ are kept, everything else is dropped.
RECURSIVE uslug(_)
uslug(s) ==
  IF s = <<>> THEN <<>>
  ELSE LET c == Head(s)
           r == uslug(Tail(s))
       IN  IF c \in Letters THEN <<Lower(c)>> \o r
           ELSE IF c = " " THEN <<"-">> \o r
           ELSE IF c \in {"-", "_", "~"} THEN <<c>> \o r
           ELSE r

substr(s, n) == SubSeq(s, 1, IF Len(s) < n THEN Len(s) ELSE n)

makePluginId(source) == substr(uslug(source), MaxIdLen)

\* -------------------------------------------------------------- text files
\* A manifest object.  id = NoId and app_min_version = NoVersion stand for a
\* key that is missing (or empty); _package_hash = NoHash for no stamp.
ManifestObj(id, ver, hash) ==
  [id |-> id, app_min_version |-> ver, _package_hash |-> hash]
NoObj == ManifestObj(NoId, NoVersion, NoHash)

\* A line of text: pad says whether whitespace surrounds it; t is what the
\* trimmed line is: "open" = '/* joplin-manifest:', "close" = '*/',
\* "closeTail" = '*/' followed by more text, "json" = the JSON text of v,
\* "blank" = nothing, "code" = anything else.
Line(pad, t, v) == [pad |-> pad, t |-> t, v |-> v]

\* A trim that leaves the line as it is.
trimNone(line) == line

trim(line) == [line EXCEPT !.pad = FALSE]
NoFile == <<>>

\* A string is the sequence of its lines (what split('\n') gives): never
\* empty, the empty string being one blank line.
EmptyText == <<Line(FALSE, "blank", [id |-> <<>>, app_min_version |-> <<>>,
                                     _package_hash |-> "none"])>>
\* Array.prototype.join('\n')
join(lines) == IF lines = <<>> THEN EmptyText ELSE lines

\* JSON.stringify / JSON.parse of a manifest: the text is one line.
JSONstringify(obj) == <<Line(FALSE, "json", obj)>>
JSONparses(text) == Len(text) = 1 /\ text[1].t = "json"
JSONparse(text) == text[1].v

\* ------------------------------------------------------------------- paths
\* dir: "src" and "dl" (where the caller points), "pluginDir", "tempDir";
\* name: the file name without its extension; ext: "", "js" or "jpl".
Path(dir, name, ext) == [dir |-> dir, name |-> name, ext |-> ext]
filename(path) == path.name
dirname(path) == Path(path.dir, <<>>, "")
toLowerCase(ext) ==
  CASE ext = "JS" -> "js" [] ext = "JPL" -> "jpl" [] OTHER -> ext

\* A directory's files: manifest.json and index.js directly inside it and
\* under dist/ (NoFile = the file does not exist).
Dir(manifest, script, distManifest, distScript) ==
  [manifest |-> manifest, script |-> script,
   distManifest |-> distManifest, distScript |-> distScript]
EmptyDir == Dir(NoFile, NoFile, NoFile, NoFile)

Script(tag) == <<Line(FALSE, tag, NoObj)>>

\* ------------------------------------------------ the files of the model
NameAb == <<"A", "b">>
Nameab == <<"a", "b">>
NameOff == <<"_", "x">>
NameX == <<"x">>
NameZ == <<"z">>
IdP == <<"p">>

HostVersions == {<<1, 5>>}

\* Source directories: "Ab" has the direct layout and a manifest declaring
\* neither id nor app_min_version; "ab" has the dist layout.
SrcDirs ==
  (Path("src", NameAb, "") :>
     Dir(JSONstringify(NoObj), Script("s1"), NoFile, NoFile)) @@
  (Path("src", Nameab, "") :>
     Dir(NoFile, NoFile,
         JSONstringify(ManifestObj(NoId, <<1, 4>>, NoHash)), Script("s2")))

\* Source bundles: "Ab.js" declares no id and needs version 2.0; "_x.js"
\* carries the exclusion marker; "z.js" has no manifest block.
SrcBundles ==
  (Path("src", NameAb, "js") :>
     <<Line(FALSE, "code", NoObj), Line(TRUE, "open", NoObj),
       Line(TRUE, "json", ManifestObj(NoId, <<2, 0>>, NoHash)),
       Line(FALSE, "closeTail", NoObj), Line(FALSE, "code", NoObj)>>) @@
  (Path("src", NameOff, "js") :>
     <<Line(FALSE, "open", NoObj),
       Line(FALSE, "json", ManifestObj(NameX, <<1, 4>>, NoHash)),
       Line(FALSE, "close", NoObj)>>) @@
  (Path("src", NameZ, "js") :>
     <<Line(FALSE, "code", NoObj), Line(FALSE, "close", NoObj)>>)

\* Package archives: what extraction puts in the target, and the md5 of the
\* archive file.  P1 and P2 both declare id "p"; P0 holds no manifest.
Packages ==
  ("P1" :> [hash |-> "h1", script |-> Script("s3"),
            manifest |-> JSONstringify(ManifestObj(IdP, <<1, 4>>, NoHash))]) @@
  ("P2" :> [hash |-> "h2", script |-> Script("s4"),
            manifest |-> JSONstringify(ManifestObj(IdP, <<2, 0>>, NoHash))]) @@
  ("P0" :> [hash |-> "h0", script |-> Script("s5"), manifest |-> NoFile])

\* Package files outside the plugin directory: src/x.jpl and dl/x.jpl have
\* the same file name, so the same unpack target.
SrcPackages ==
  (Path("src", NameX, "jpl") :> "P1") @@
  (Path("dl", NameX, "jpl") :> "P2") @@
  (Path("src", NameZ, "jpl") :> "P0")

\* ----------------------------------------------------------------- plugins
\* A Plugin object; oid is the identity of the object (0 = no object).
Plugin(oid, baseDir, manifest, scriptText, notices) ==
  [oid |-> oid, id |-> manifest.id, baseDir |-> baseDir, manifest |-> manifest,
   scriptText |-> scriptText, deprecationNotices |-> notices, devMode |-> FALSE]
NoPlugin == Plugin(0, Path("", <<>>, ""), NoObj, NoFile, <<>>)

\* What a loader gives back: error = "none" and the plugin, or the error
\* thrown; tempDir is the unpack area afterwards, extractions the number of
\* archive extractions performed.
Loaded(plugin, td, n) ==
  [error |-> "none", plugin |-> plugin, tempDir |-> td, extractions |-> n]
Thrown(error, td, n) ==
  [error |-> error, plugin |-> NoPlugin, tempDir |-> td, extractions |-> n]

\* ------------------------------------------------------ parsePluginJsBundle
StateStarted == 1
StateInManifest == 2

RECURSIVE scanLines(_, _, _)
scanLines(lines, state, manifestText) ==
  IF lines = <<>> THEN manifestText
  ELSE LET line == trim(Head(lines))
       IN  IF state # StateInManifest
           THEN scanLines(Tail(lines),
                          IF line = Line(FALSE, "open", line.v)
                          THEN StateInManifest ELSE state,
                          manifestText)
           ELSE IF ~line.pad /\ line.t \in {"close", "closeTail"}
                THEN manifestText
                ELSE scanLines(Tail(lines), state, Append(manifestText, line))

\* ok = FALSE stands for the Error('Could not find manifest').
parsePluginJsBundle(jsBundleString) ==
  LET manifestText == scanLines(jsBundleString, StateStarted, <<>>)
  IN  [ok |-> Len(manifestText) # 0,
       scriptText |-> jsBundleString,
       manifestText |-> join(manifestText)]

\* --------------------------------------------------------------- loadPlugin
\* A loadPlugin without the final test of plugin.id.
loadPluginNoIdCheck(baseDir, manifestText, scriptText, pluginIdIfNotSpecified, oid, td, n) ==
  IF ~JSONparses(manifestText) THEN Thrown("ManifestDecodeError", td, n)
  ELSE
    LET manifestObj == JSONparse(manifestText)
        noVersion == manifestObj.app_min_version = NoVersion
        obj1 == IF noVersion
                THEN [manifestObj EXCEPT !.app_min_version = BaselineVersion]
                ELSE manifestObj
        noId == obj1.id = NoId
        obj2 == IF noId THEN [obj1 EXCEPT !.id = pluginIdIfNotSpecified] ELSE obj1
        deprecationNotices ==
          (IF noVersion THEN <<"app_min_version">> ELSE <<>>) \o
          (IF noId THEN <<"id">> ELSE <<>>)
    IN  Loaded(Plugin(oid, baseDir, obj2, scriptText, deprecationNotices), td, n)

loadPlugin(baseDir, manifestText, scriptText, pluginIdIfNotSpecified, oid, td, n) ==
  IF ~JSONparses(manifestText) THEN Thrown("ManifestDecodeError", td, n)
  ELSE
    LET manifestObj == JSONparse(manifestText)
        noVersion == manifestObj.app_min_version = NoVersion
        obj1 == IF noVersion
                THEN [manifestObj EXCEPT !.app_min_version = BaselineVersion]
                ELSE manifestObj
        noId == obj1.id = NoId
        obj2 == IF noId THEN [obj1 EXCEPT !.id = pluginIdIfNotSpecified] ELSE obj1
        deprecationNotices ==
          (IF noVersion THEN <<"app_min_version">> ELSE <<>>) \o
          (IF noId THEN <<"id">> ELSE <<>>)
        plugin == Plugin(oid, baseDir, obj2, scriptText, deprecationNotices)
    IN  IF plugin.id = NoId THEN Thrown("MissingPluginId", td, n)
        ELSE Loaded(plugin, td, n)

loadPluginFromJsBundle(baseDir, jsBundleString, pluginIdIfNotSpecified, oid, td) ==
  LET r == parsePluginJsBundle(jsBundleString)
  IN  IF ~r.ok THEN Thrown("ManifestNotFound", td, 0)
      ELSE loadPlugin(baseDir, r.manifestText, r.scriptText,
                      pluginIdIfNotSpecified, oid, td, 0)

\* The directory branch of loadPluginFromPath, on the directory's files.
loadPluginFromDirectory(path, dir, oid, td, n) ==
  LET direct == dir.manifest # NoFile
      distPath == IF direct THEN path ELSE [path EXCEPT !.name = @ \o <<"/dist">>]
      scriptText == IF direct THEN dir.script ELSE dir.distScript
      manifestText == IF direct THEN dir.manifest ELSE dir.distManifest
      pluginId == makePluginId(filename(path))
  IN  IF scriptText = NoFile \/ manifestText = NoFile
      THEN Thrown("FileNotFound", td, n)
      ELSE loadPlugin(distPath, manifestText, scriptText, pluginId, oid, td, n)

\* null is reported as ok = FALSE.
loadManifestToObject(td, fname) ==
  IF fname \in DOMAIN td /\ td[fname].manifest # NoFile
     /\ JSONparses(td[fname].manifest)
  THEN [ok |-> TRUE, manifest |-> JSONparse(td[fname].manifest)]
  ELSE [ok |-> FALSE, manifest |-> NoObj]

\* A cache test that does not compare the hash.
cacheHitAnyHash(manifest, hash) == manifest.ok

\* A cache test that takes a manifest without stamp for a match.
cacheHitUnstamped(manifest, hash) ==
  manifest.ok /\ manifest.manifest._package_hash \in {hash, NoHash}

\* The cache test of loadPluginFromPackage: the target's manifest exists and
\* carries the hash of the package file.
cacheHit(manifest, hash) == manifest.ok /\ manifest.manifest._package_hash = hash

\* fsDriver.remove + mkdir, then tar.extract of package pkg into the target.
extract(td, fname, pkg) ==
  [f \in DOMAIN td \cup {fname} |->
     IF f = fname
     THEN Dir(Packages[pkg].manifest, Packages[pkg].script, NoFile, NoFile)
     ELSE td[f]]

writeManifest(td, fname, manifest) ==
  [td EXCEPT ![fname].manifest = JSONstringify(manifest)]

\* A file-system call of the miss path that fails, and what it leaves:
\* "remove" fails having removed nothing, "removePartial" having removed
\* index.js only; "mkdir" fails after the removal; "extract" fails with
\* nothing extracted, "extractPartial" with manifest.json extracted only;
\* "write" fails with manifest.json as extracted, "writePartial" with part
\* of the JSON text written.  "none": every call succeeds.
Faults == {"none", "remove", "removePartial", "mkdir", "extract",
           "extractPartial", "write", "writePartial"}

\* The unpack area after the failed call.
failed(td, fname, pkg, fault) ==
  CASE fault = "remove" -> td
    [] fault = "removePartial" ->
         IF fname \in DOMAIN td
         THEN [td EXCEPT ![fname].script = NoFile, ![fname].distScript = NoFile]
         ELSE td
    [] fault = "mkdir" -> [f \in DOMAIN td \ {fname} |-> td[f]]
    [] fault = "extract" ->
         [f \in DOMAIN td \cup {fname} |-> IF f = fname THEN EmptyDir ELSE td[f]]
    [] fault = "extractPartial" ->
         [extract(td, fname, pkg) EXCEPT ![fname].script = NoFile]
    [] fault = "write" -> extract(td, fname, pkg)
    [] fault = "writePartial" ->
         [extract(td, fname, pkg) EXCEPT
            ![fname].manifest = <<Line(FALSE, "code", NoObj)>>]

\* pkg is the archive stored at path (the file is there: md5File succeeds).
loadPluginFromPackage(path, pkg, oid, td, fault) ==
  LET fname == filename(path)
      hash == Packages[pkg].hash
      unpackDir == Path("tempDir", fname, "")
      manifest == loadManifestToObject(td, fname)
  IN  IF cacheHit(manifest, hash)
      THEN loadPluginFromDirectory(unpackDir, td[fname], oid, td, 0)
      ELSE IF fault \in {"remove", "removePartial"}
      THEN Thrown("RemoveFailed", failed(td, fname, pkg, fault), 0)
      ELSE IF fault = "mkdir"
      THEN Thrown("MkdirFailed", failed(td, fname, pkg, fault), 0)
      ELSE IF fault \in {"extract", "extractPartial"}
      THEN Thrown("ExtractFailed", failed(td, fname, pkg, fault), 1)
      ELSE
        LET td1 == extract(td, fname, pkg)
            manifest1 == loadManifestToObject(td1, fname)
            td2 == writeManifest(td1, fname,
                                 [manifest1.manifest EXCEPT !._package_hash = hash])
        IN  IF ~manifest1.ok THEN Thrown("ExtractionFailure", td1, 1)
            ELSE IF fault \in {"write", "writePartial"}
            THEN Thrown("WriteFailed", failed(td, fname, pkg, fault), 1)
            ELSE loadPluginFromDirectory(unpackDir, td2[fname], oid, td2, 1)

\* The archive stored at a .jpl path ("none" when there is no such file).
packageAt(path, pd) ==
  IF path \in DOMAIN SrcPackages THEN SrcPackages[path]
  ELSE IF path.dir = "pluginDir" /\ path.name \in DOMAIN pd THEN pd[path.name]
  ELSE "none"

loadPluginFromPath(path, oid, td, pd) ==
  IF toLowerCase(path.ext) = "js"
  THEN IF path \in DOMAIN SrcBundles
       THEN loadPluginFromJsBundle(dirname(path), SrcBundles[path],
                                   filename(path), oid, td)
       ELSE Thrown("FileNotFound", td, 0)
  ELSE IF toLowerCase(path.ext) = "jpl"
  THEN IF packageAt(path, pd) # "none"
       THEN loadPluginFromPackage(path, packageAt(path, pd), oid, td, "none")
       ELSE Thrown("FileNotFound", td, 0)
  ELSE IF path \in DOMAIN SrcDirs
       THEN loadPluginFromDirectory(path, SrcDirs[path], oid, td, 0)
       ELSE Thrown("FileNotFound", td, 0)

\* ---------------------------------------------------------------- settings
\* PluginSettings: a JavaScript object, its keys in insertion order; here a
\* sequence of entries with distinct ids.
Setting(id, enabled, deleted) == [id |-> id, enabled |-> enabled, deleted |-> deleted]
SettingIds == {Nameab, IdP}
SettingsOfLen(n) ==
  {s \in [1..n -> [id : SettingIds, enabled : BOOLEAN, deleted : BOOLEAN]] :
     \A i, j \in 1..n : i # j => s[i].id # s[j].id}
AllSettings == SettingsOfLen(0) \cup SettingsOfLen(1) \cup SettingsOfLen(2)

hasSetting(settings, pluginId) == \E i \in DOMAIN settings : settings[i].id = pluginId
settingOf(settings, pluginId) ==
  settings[CHOOSE i \in DOMAIN settings : settings[i].id = pluginId]

\* A pluginEnabled that ignores the settings.
pluginEnabledAlways(settings, pluginId) == TRUE

pluginEnabled(settings, pluginId) ==
  IF ~hasSetting(settings, pluginId) THEN TRUE
  ELSE settingOf(settings, pluginId).enabled # FALSE

\* ---------------------------------------------------------------- variables
VARIABLES
  appVersion_,  \* the host version given to initialize()
  heap,         \* the Plugins mapping objects that are still referenced
  plugins_,     \* this.plugins_: a reference into heap
  tempDir,      \* Setting.value('tempDir'): unpack target name -> its files
  pluginDir,    \* Setting.value('pluginDir'): <name>.jpl -> the archive in it
  events,       \* store_: the plugin objects a PLUGIN_ADD was dispatched for
  runs,         \* runner_: the plugin objects handed to runner_.run
  nextOid,      \* the next Plugin object
  pc,           \* "idle", or "batch" inside the loop of loadAndRunPlugins
                \* (with calls in flight together: the position of each)
  batch,        \* the arguments and progress of the loadAndRunPlugins call
                \* (with calls in flight together: the locals of each)
  snapshot,     \* a reference obtained from the plugins accessor
  last          \* what the last call (or loop iteration) did

vars == <<appVersion_, heap, plugins_, tempDir, pluginDir, events, runs,
          nextOid, pc, batch, snapshot, last>>

\* The registry as the service sees it.
Registry == heap[plugins_]

NoMapping == <<>>
NoRef == 0
Refs == 1..3

\* ---------------------------------------------------------------- registry
\* A reference not in use.  Mappings that neither plugins_ nor the snapshot
\* reference any more are dropped from the heap (garbage).
fresh(h) == CHOOSE r \in Refs \ DOMAIN h : \A q \in Refs \ DOMAIN h : r <= q
collect(h, roots) == [r \in DOMAIN h \cap roots |-> h[r]]

\* rs = [heap, plugins_, snapshot]: the mappings, this.plugins_ and the
\* reference held by a reader.
RegState(h, ref, snap) == [heap |-> h, plugins_ |-> ref, snapshot |-> snap]

put(m, pluginId, plugin) ==
  [k \in DOMAIN m \cup {pluginId} |-> IF k = pluginId THEN plugin ELSE m[k]]
remove(m, pluginId) == [k \in DOMAIN m \ {pluginId} |-> m[k]]

\* A setPluginAt that stores the plugin under the normalized id.
setPluginAtNormalized(rs, pluginId, plugin) ==
  LET r == fresh(rs.heap)
      h == rs.heap @@ (r :> put(rs.heap[rs.plugins_], makePluginId(pluginId), plugin))
  IN  RegState(collect(h, {r, rs.snapshot}), r, rs.snapshot)

\* A setPluginAt that updates the mapping object in place.
setPluginAtInPlace(rs, pluginId, plugin) ==
  [rs EXCEPT !.heap[rs.plugins_] = put(@, pluginId, plugin)]

setPluginAt(rs, pluginId, plugin) ==
  LET r == fresh(rs.heap)
      h == rs.heap @@ (r :> put(rs.heap[rs.plugins_], pluginId, plugin))
  IN  RegState(collect(h, {r, rs.snapshot}), r, rs.snapshot)

deletePluginAt(rs, pluginId) ==
  IF pluginId \notin DOMAIN rs.heap[rs.plugins_] THEN rs
  ELSE LET r == fresh(rs.heap)
           h == rs.heap @@ (r :> remove(rs.heap[rs.plugins_], pluginId))
       IN  RegState(collect(h, {r, rs.snapshot}), r, rs.snapshot)

\* -------------------------------------------------------------- call records
\* last: op and arg name the call, result is "ok" or what it threw (for a
\* loop iteration also "skipped" / "disabled"), oid and id the plugin object
\* it loaded (for uninstallPlugin: the one it removed), extractions the archive extractions it performed; input,
\* inputAfter and output are the settings objects of uninstallPlugins.
Last(op, arg, result, plugin, n) ==
  [op |-> op, arg |-> arg, result |-> result, oid |-> plugin.oid,
   id |-> plugin.id, extractions |-> n,
   input |-> <<>>, inputAfter |-> <<>>, output |-> <<>>]
NoBatch == [settings |-> <<>>, devMode |-> FALSE, ok |-> {}, failed |-> FALSE]
NoSnapshot == [ref |-> NoRef, taken |-> NoMapping]

Init ==
  /\ appVersion_ \in HostVersions
  /\ plugins_ = 1
  /\ heap = (1 :> NoMapping)
  /\ tempDir = <<>>
  /\ pluginDir = <<>>
  /\ events = {}
  /\ runs = {}
  /\ nextOid = 1
  /\ pc = "idle"
  /\ batch = NoBatch
  /\ snapshot = NoSnapshot
  /\ last = Last("initialize", <<>>, "ok", NoPlugin, 0)

\* ------------------------------------------------------------------ runPlugin
Ran(result, ev, rn) == [result |-> result, events |-> ev, runs |-> rn]

\* A runPlugin without the version gate.
runPluginNoGate(plugin, appVersion, ev, rn, runnerThrows) ==
  Ran(IF runnerThrows THEN "RunnerError" ELSE "ok",
      ev \cup {plugin.oid}, rn \cup {plugin.oid})

\* runnerThrows: whether runner_.run(plugin, pluginApi) fails.
runPlugin(plugin, appVersion, ev, rn, runnerThrows) ==
  IF compareVersions(appVersion, plugin.manifest.app_min_version) < 0
  THEN Ran("VersionTooOld", ev, rn)
  ELSE Ran(IF runnerThrows THEN "RunnerError" ELSE "ok",
           ev \cup {plugin.oid}, rn \cup {plugin.oid})

RunPlugin(pluginId, runnerThrows) ==
  /\ pc = "idle"
  /\ pluginId \in DOMAIN Registry
  /\ LET r == runPlugin(Registry[pluginId], appVersion_, events, runs, runnerThrows)
     IN  /\ events' = r.events
         /\ runs' = r.runs
         /\ last' = Last("runPlugin", pluginId, r.result, Registry[pluginId], 0)
  /\ UNCHANGED <<appVersion_, heap, plugins_, tempDir, pluginDir, nextOid, pc,
                 batch, snapshot>>

\* ---------------------------------------------------------- loadAndRunPlugins
\* A marker test that excludes nothing.
excludedNever(path) == FALSE

\* filename(pluginPath).indexOf('_') === 0
excluded(path) ==
  Len(filename(path)) > 0 /\ filename(path)[1] = "_"

\* A duplicate test on the plugin object instead of its id.
duplicateIdByObject(registry, plugin) ==
  \E k \in DOMAIN registry : registry[k].oid = plugin.oid

\* A duplicate test that never finds the id.
duplicateIdNever(registry, plugin) == FALSE

\* this.plugins_[plugin.id]
duplicateId(registry, plugin) == plugin.id \in DOMAIN registry

\* A loop whose catch clause rethrows.
catchErrorRethrow(error) == "thrown"

\* catch (error) { logger.error(...) }: the loop goes on.
catchError(error) == "logged"

\* The call: the loop is entered with no candidate processed yet.  The list
\* pluginPaths is revealed one candidate at a time, so lists of every length
\* are covered.  batch.ok collects the plugin objects the call registered,
\* batch.failed says whether an iteration ended in the catch clause.
LoadAndRunPlugins(settings, devMode) ==
  /\ pc = "idle"
  /\ pc' = "batch"
  /\ batch' = [settings |-> settings, devMode |-> devMode, ok |-> {},
               failed |-> FALSE]
  /\ last' = Last("loadAndRunPlugins:enter", <<>>, "ok", NoPlugin, 0)
  /\ UNCHANGED <<appVersion_, heap, plugins_, tempDir, pluginDir, events, runs,
                 nextOid, snapshot>>

\* One iteration of the loop, on the next path of the list.
LoadAndRunPluginsCandidate(candidate, runnerThrows) ==
  /\ pc = "batch"
  /\ nextOid <= MaxObjects
  /\ LET r == loadPluginFromPath(candidate, nextOid, tempDir, pluginDir)
         plugin == r.plugin
         rs0 == RegState(heap, plugins_, snapshot.ref)
         rs1 == setPluginAt(rs0, plugin.id, plugin)
         enabled == pluginEnabled(batch.settings, plugin.id)
         rs2 == IF enabled
                THEN [rs1 EXCEPT !.heap[rs1.plugins_][plugin.id].devMode = batch.devMode]
                ELSE rs1
         run == runPlugin([plugin EXCEPT !.devMode = batch.devMode],
                          appVersion_, events, runs, runnerThrows)
         loaded == ~excluded(candidate) /\ r.error = "none"
         registered == loaded /\ ~duplicateId(Registry, plugin)
         result == IF excluded(candidate) THEN "skipped"
                   ELSE IF ~loaded THEN r.error
                   ELSE IF ~registered THEN "DuplicateId"
                   ELSE IF ~enabled THEN "disabled"
                   ELSE run.result
         goesOn == result \in {"skipped", "disabled", "ok"}
                   \/ catchError(result) = "logged"
     IN  /\ tempDir' = IF excluded(candidate) THEN tempDir ELSE r.tempDir
         /\ nextOid' = IF loaded THEN nextOid + 1 ELSE nextOid
         /\ heap' = IF registered THEN rs2.heap ELSE heap
         /\ plugins_' = IF registered THEN rs2.plugins_ ELSE plugins_
         /\ events' = IF registered /\ enabled THEN run.events ELSE events
         /\ runs' = IF registered /\ enabled THEN run.runs ELSE runs
         /\ pc' = IF goesOn THEN "batch" ELSE "idle"
         /\ batch' = IF goesOn
                     THEN [batch EXCEPT
                             !.ok = IF registered THEN @ \cup {plugin.oid} ELSE @,
                             !.failed = @ \/ result \notin {"skipped", "disabled", "ok"}]
                     ELSE NoBatch
         /\ last' = Last(IF goesOn THEN "candidate" ELSE "loadAndRunPlugins",
                         candidate, result,
                         IF loaded THEN plugin ELSE NoPlugin,
                         IF excluded(candidate) THEN 0 ELSE r.extractions)
  /\ UNCHANGED <<appVersion_, pluginDir, snapshot>>

\* The list is exhausted: the call returns.
LoadAndRunPluginsReturn ==
  /\ pc = "batch"
  /\ pc' = "idle"
  /\ batch' = NoBatch
  /\ last' = Last("loadAndRunPlugins", <<>>, "ok", NoPlugin, 0)
  /\ UNCHANGED <<appVersion_, heap, plugins_, tempDir, pluginDir, events, runs,
                 nextOid, snapshot>>

\* -------------------------------------------------------------- installPlugin
\* fsDriver.copy(jplPath, destPath) into the plugin directory.
copy(pd, jplPath, destPath) == put(pd, filename(destPath), packageAt(jplPath, pd))

\* An install that registers whatever is registered already.
installRegistersAlways(registry, plugin) == TRUE

\* if (!this.plugins_[plugin.id])
installRegisters(registry, plugin) == plugin.id \notin DOMAIN registry

InstallPlugin(jplPath) ==
  /\ pc = "idle"
  /\ nextOid + 1 <= MaxObjects
  /\ LET pre == loadPluginFromPath(jplPath, nextOid, tempDir, pluginDir)
         preloadedPlugin == pre.plugin
         destPath == Path("pluginDir", preloadedPlugin.id, "jpl")
         pd1 == copy(pluginDir, jplPath, destPath)
         r == loadPluginFromPath(destPath, nextOid + 1, pre.tempDir, pd1)
         plugin == r.plugin
         preloaded == pre.error = "none"
         loaded == preloaded /\ r.error = "none"
         registers == loaded /\ installRegisters(Registry, plugin)
         rs == setPluginAt(RegState(heap, plugins_, snapshot.ref), plugin.id, plugin)
     IN  /\ tempDir' = IF preloaded THEN r.tempDir ELSE pre.tempDir
         /\ pluginDir' = IF preloaded THEN pd1 ELSE pluginDir
         /\ nextOid' = IF loaded THEN nextOid + 2
                       ELSE IF preloaded THEN nextOid + 1 ELSE nextOid
         /\ heap' = IF registers THEN rs.heap ELSE heap
         /\ plugins_' = IF registers THEN rs.plugins_ ELSE plugins_
         /\ last' = Last("installPlugin", jplPath,
                         IF ~preloaded THEN pre.error
                         ELSE IF ~loaded THEN r.error ELSE "ok",
                         IF loaded THEN plugin ELSE NoPlugin,
                         IF preloaded THEN pre.extractions + r.extractions
                         ELSE pre.extractions)
  /\ UNCHANGED <<appVersion_, events, runs, pc, batch, snapshot>>

\* ------------------------------------------------------------ uninstallPlugin
\* pluginPath: the file of the plugin directory named pluginId, if any.
pluginPath(pluginId, pd) ==
  IF pluginId \in DOMAIN pd THEN Path("pluginDir", pluginId, "jpl")
  ELSE Path("", <<>>, "")

\* An uninstall that stops when the plugin directory has no such file.
uninstallPluginFoundOnly(rs, pd, pluginId) ==
  LET path == pluginPath(pluginId, pd)
      found == path.dir # ""
  IN  [rs |-> IF found THEN deletePluginAt(rs, pluginId) ELSE rs,
       pd |-> IF found THEN remove(pd, filename(path)) ELSE pd,
       found |-> found]

\* On the registry and the plugin directory; found = a file was removed.
uninstallPlugin(rs, pd, pluginId) ==
  LET path == pluginPath(pluginId, pd)
      found == path.dir # ""
  IN  [rs |-> deletePluginAt(rs, pluginId),
       pd |-> IF found THEN remove(pd, filename(path)) ELSE pd,
       found |-> found]

UninstallIds == {Nameab, NameAb, IdP}

UninstallPlugin(pluginId) ==
  /\ pc = "idle"
  /\ LET u == uninstallPlugin(RegState(heap, plugins_, snapshot.ref), pluginDir, pluginId)
     IN  /\ heap' = u.rs.heap
         /\ plugins_' = u.rs.plugins_
         /\ pluginDir' = u.pd
         /\ last' = Last("uninstallPlugin", pluginId,
                         IF u.found THEN "ok" ELSE "FileNotFoundOnUninstall",
                         IF pluginId \in DOMAIN Registry THEN Registry[pluginId]
                         ELSE NoPlugin,
                         0)
  /\ UNCHANGED <<appVersion_, tempDir, events, runs, nextOid, pc, batch, snapshot>>

\* ----------------------------------------------------------- uninstallPlugins
\* The settings objects of one call: objs[1] is the caller's object,
\* objs[2] the latest copy; a Copied names the object newSettings refers to.
Copied(objs, ref) == [objs |-> objs, ref |-> ref]

\* A "copy" that is the same object.
spreadAlias(objs, src) == Copied(objs, src)

\* { ...settings }: a new object with the entries of objs[src].
spread(objs, src) == Copied((2 :> objs[src]) @@ objs, 2)

\* delete newSettings[pluginId]
deleteKey(settings, pluginId) == SelectSeq(settings, LAMBDA e : e.id # pluginId)

\* The for..in loop over the entries of settings; st = [rs, pd, objs,
\* newSettings].
RECURSIVE uninstallPluginsLoop(_, _)
uninstallPluginsLoop(entries, st) ==
  IF entries = <<>> THEN st
  ELSE
    LET pluginId == Head(entries).id
    IN  IF Head(entries).deleted
        THEN LET u == uninstallPlugin(st.rs, st.pd, pluginId)
                 c == spread(st.objs, 1)
             IN  uninstallPluginsLoop(
                   Tail(entries),
                   [rs |-> u.rs, pd |-> u.pd,
                    objs |-> [c.objs EXCEPT ![c.ref] = deleteKey(@, pluginId)],
                    newSettings |-> c.ref])
        ELSE uninstallPluginsLoop(Tail(entries), st)

UninstallPlugins(settings) ==
  /\ pc = "idle"
  /\ LET st == uninstallPluginsLoop(
                 settings,
                 [rs |-> RegState(heap, plugins_, snapshot.ref), pd |-> pluginDir,
                  objs |-> (1 :> settings), newSettings |-> 1])
     IN  /\ heap' = st.rs.heap
         /\ plugins_' = st.rs.plugins_
         /\ pluginDir' = st.pd
         /\ last' = [Last("uninstallPlugins", <<>>, "ok", NoPlugin, 0)
                       EXCEPT !.input = settings,
                              !.inputAfter = st.objs[1],
                              !.output = st.objs[st.newSettings]]
  /\ UNCHANGED <<appVersion_, tempDir, events, runs, nextOid, pc, batch, snapshot>>

\* ------------------------------------------------------------ other calls
\* get plugins(): the caller keeps the reference it is given.
GetPlugins ==
  /\ pc = "idle"
  /\ snapshot' = [ref |-> plugins_, taken |-> Registry]
  /\ heap' = collect(heap, {plugins_})
  /\ last' = Last("plugins", <<>>, "ok", NoPlugin, 0)
  /\ UNCHANGED <<appVersion_, plugins_, tempDir, pluginDir, events, runs, nextOid,
                 pc, batch>>

\* A direct loadPluginFromPackage of a package file that exists; fault names
\* the file-system call that fails if the call gets to it.
LoadPluginFromPackage(path, fault) ==
  /\ pc = "idle"
  /\ nextOid <= MaxObjects
  /\ packageAt(path, pluginDir) # "none"
  /\ LET r == loadPluginFromPackage(path, packageAt(path, pluginDir), nextOid,
                                    tempDir, fault)
     IN  /\ tempDir' = r.tempDir
         /\ nextOid' = IF r.error = "none" THEN nextOid + 1 ELSE nextOid
         /\ last' = Last("loadPluginFromPackage", path,
                         IF r.error = "none" THEN "ok" ELSE r.error,
                         r.plugin, r.extractions)
  /\ UNCHANGED <<appVersion_, heap, plugins_, pluginDir, events, runs, pc, batch,
                 snapshot>>

\* The process ends and a new one starts: a new service and store, the
\* files as they were left.  last.arg keeps the record of the last call of
\* the process that ended.
Restart ==
  /\ pc = "idle"
  /\ last.op # "restart"
  /\ plugins_' = 1
  /\ heap' = (1 :> NoMapping)
  /\ events' = {}
  /\ runs' = {}
  /\ snapshot' = NoSnapshot
  /\ last' = Last("restart", last, "ok", NoPlugin, 0)
  /\ UNCHANGED <<appVersion_, tempDir, pluginDir, nextOid, pc, batch>>

\* ------------------------------------------------- calls in flight together
\* Several calls of the service may be in flight at once: each runs until it
\* awaits, and another call may run while it waits.  Here pc and batch hold
\* one entry per flow (a caller that makes one call at a time).  pc[f] is
\* "idle" or the await the call of flow f is suspended at:
\*   loadAndRunPlugins: "loop" (between two iterations), "load"
\*     (await loadPluginFromPath, line 300), "run" (await runPlugin, 316);
\*   installPlugin: "preload" (line 354), "copy" (357), "reload" (360);
\*   uninstallPlugin: "uninstall" (lines 380 and 385).
\* A load reads and writes the files when it completes.
Flows == {1, 2}

\* The locals of a call: the arguments, the path being loaded, the
\* preloaded plugin, the candidates whose iteration has begun and not
\* ended, and the handles returned by the runner that have not settled.
NoFlow ==
  [call |-> "", settings |-> <<>>, devMode |-> FALSE, path |-> <<>>,
   plugin |-> NoPlugin, inflight |-> {}, pending |-> {}]

Handle(path, plugin) == [path |-> path, plugin |-> plugin]

InitAsync ==
  /\ appVersion_ \in HostVersions
  /\ plugins_ = 1
  /\ heap = (1 :> NoMapping)
  /\ tempDir = <<>>
  /\ pluginDir = <<>>
  /\ events = {}
  /\ runs = {}
  /\ nextOid = 1
  /\ pc = [f \in Flows |-> "idle"]
  /\ batch = [f \in Flows |-> NoFlow]
  /\ snapshot = NoSnapshot
  /\ last = Last("initialize", <<>>, "ok", NoPlugin, 0)

\* A call that does not await the promise of runPlugin.
runPluginNotAwaited(handle) == "loop"

\* await this.runPlugin(plugin): the loop is suspended until the handle
\* settles.
runPluginAwaited(handle) == "run"

AsyncLoadAndRunPlugins(f, settings, devMode) ==
  /\ pc[f] = "idle"
  /\ pc' = [pc EXCEPT ![f] = "loop"]
  /\ batch' = [batch EXCEPT ![f] = [NoFlow EXCEPT !.call = "loadAndRunPlugins",
                                                  !.settings = settings,
                                                  !.devMode = devMode]]
  /\ last' = Last("loadAndRunPlugins:enter", <<>>, "ok", NoPlugin, 0)
  /\ UNCHANGED <<appVersion_, heap, plugins_, tempDir, pluginDir, events, runs,
                 nextOid, snapshot>>

\* The loop takes the next path of the list: a marked one is skipped, for
\* any other loadPluginFromPath is called and awaited.
AsyncCandidate(f, candidate) ==
  /\ pc[f] = "loop"
  /\ IF excluded(candidate)
     THEN /\ last' = Last("candidate", candidate, "skipped", NoPlugin, 0)
          /\ UNCHANGED <<pc, batch>>
     ELSE /\ pc' = [pc EXCEPT ![f] = "load"]
          /\ batch' = [batch EXCEPT ![f].path = candidate,
                                    ![f].inflight = @ \cup {candidate}]
          /\ last' = Last("candidate:load", candidate, "ok", NoPlugin, 0)
  /\ UNCHANGED <<appVersion_, heap, plugins_, tempDir, pluginDir, events, runs,
                 nextOid, snapshot>>

\* loadPluginFromPath settles and the iteration runs on without awaiting
\* (lines 300-316) up to the call of runner_.run inside runPlugin; a throw
\* is caught and ends the iteration.
AsyncCandidateLoaded(f) ==
  /\ pc[f] = "load"
  /\ nextOid <= MaxObjects
  /\ LET candidate == batch[f].path
         r == loadPluginFromPath(candidate, nextOid, tempDir, pluginDir)
         plugin == r.plugin
         rs0 == RegState(heap, plugins_, snapshot.ref)
         rs1 == setPluginAt(rs0, plugin.id, plugin)
         enabled == pluginEnabled(batch[f].settings, plugin.id)
         rs2 == IF enabled
                THEN [rs1 EXCEPT !.heap[rs1.plugins_][plugin.id].devMode =
                                   batch[f].devMode]
                ELSE rs1
         run == runPlugin([plugin EXCEPT !.devMode = batch[f].devMode],
                          appVersion_, events, runs, FALSE)
         loaded == r.error = "none"
         registered == loaded /\ ~duplicateId(Registry, plugin)
         started == registered /\ enabled /\ run.result = "ok"
         result == IF ~loaded THEN r.error
                   ELSE IF ~registered THEN "DuplicateId"
                   ELSE IF ~enabled THEN "disabled"
                   ELSE IF ~started THEN run.result
                   ELSE "running"
         goesOn == result \in {"disabled", "running"}
                   \/ catchError(result) = "logged"
     IN  /\ tempDir' = r.tempDir
         /\ nextOid' = IF loaded THEN nextOid + 1 ELSE nextOid
         /\ heap' = IF registered THEN rs2.heap ELSE heap
         /\ plugins_' = IF registered THEN rs2.plugins_ ELSE plugins_
         /\ events' = IF registered /\ enabled THEN run.events ELSE events
         /\ runs' = IF registered /\ enabled THEN run.runs ELSE runs
         /\ pc' = [pc EXCEPT ![f] = IF ~goesOn THEN "idle"
                                    ELSE IF started
                                    THEN runPluginAwaited(Handle(candidate, plugin))
                                    ELSE "loop"]
         /\ batch' = IF ~goesOn THEN [batch EXCEPT ![f] = NoFlow]
                     ELSE IF started
                     THEN [batch EXCEPT
                             ![f].path = <<>>,
                             ![f].pending = @ \cup {Handle(candidate, plugin)}]
                     ELSE [batch EXCEPT ![f].path = <<>>,
                                        ![f].inflight = @ \ {candidate}]
         /\ last' = Last(IF goesOn THEN "candidate" ELSE "loadAndRunPlugins",
                         candidate, result,
                         IF loaded THEN plugin ELSE NoPlugin, r.extractions)
  /\ UNCHANGED <<appVersion_, pluginDir, snapshot>>

\* A handle returned by runner_.run settles (resolved, or rejected and then
\* caught by the loop): the iteration of its candidate ends.
AsyncRunSettled(f, handle, runnerThrows) ==
  /\ handle \in batch[f].pending
  /\ pc' = [pc EXCEPT ![f] = IF @ = "run" THEN "loop" ELSE @]
  /\ batch' = [batch EXCEPT ![f].pending = @ \ {handle},
                            ![f].inflight = @ \ {handle.path}]
  /\ last' = Last("runPlugin", handle.path,
                  IF runnerThrows THEN "RunnerError" ELSE "ok", handle.plugin, 0)
  /\ UNCHANGED <<appVersion_, heap, plugins_, tempDir, pluginDir, events, runs,
                 nextOid, snapshot>>

\* The list is exhausted.
AsyncReturn(f) ==
  /\ pc[f] = "loop"
  /\ pc' = [pc EXCEPT ![f] = "idle"]
  /\ batch' = [batch EXCEPT ![f] = NoFlow]
  /\ last' = Last("loadAndRunPlugins", <<>>, "ok", NoPlugin, 0)
  /\ UNCHANGED <<appVersion_, heap, plugins_, tempDir, pluginDir, events, runs,
                 nextOid, snapshot>>


AsyncInstallPlugin(f, jplPath) ==
  /\ pc[f] = "idle"
  /\ pc' = [pc EXCEPT ![f] = "preload"]
  /\ batch' = [batch EXCEPT ![f] = [NoFlow EXCEPT !.call = "installPlugin",
                                                  !.path = jplPath]]
  /\ last' = Last("installPlugin:enter", jplPath, "ok", NoPlugin, 0)
  /\ UNCHANGED <<appVersion_, heap, plugins_, tempDir, pluginDir, events, runs,
                 nextOid, snapshot>>

\* The load from jplPath settles (line 354); the copy is started.
AsyncPreloaded(f) ==
  /\ pc[f] = "preload"
  /\ nextOid <= MaxObjects
  /\ LET pre == loadPluginFromPath(batch[f].path, nextOid, tempDir, pluginDir)
         preloaded == pre.error = "none"
     IN  /\ tempDir' = pre.tempDir
         /\ nextOid' = IF preloaded THEN nextOid + 1 ELSE nextOid
         /\ pc' = [pc EXCEPT ![f] = IF preloaded THEN "copy" ELSE "idle"]
         /\ batch' = [batch EXCEPT ![f] = IF preloaded
                                          THEN [@ EXCEPT !.plugin = pre.plugin]
                                          ELSE NoFlow]
         /\ last' = Last(IF preloaded THEN "installPlugin:preloaded"
                         ELSE "installPlugin",
                         batch[f].path, IF preloaded THEN "ok" ELSE pre.error,
                         NoPlugin, pre.extractions)
  /\ UNCHANGED <<appVersion_, heap, plugins_, pluginDir, events, runs, snapshot>>

\* The copy to <pluginDir>/<id>.jpl settles (line 357); the load from there
\* is started.
AsyncCopied(f) ==
  /\ pc[f] = "copy"
  /\ pluginDir' = copy(pluginDir, batch[f].path,
                       Path("pluginDir", batch[f].plugin.id, "jpl"))
  /\ pc' = [pc EXCEPT ![f] = "reload"]
  /\ last' = Last("installPlugin:copied", batch[f].path, "ok", NoPlugin, 0)
  /\ UNCHANGED <<appVersion_, heap, plugins_, tempDir, events, runs, nextOid,
                 batch, snapshot>>

\* The load from the plugin directory settles (line 360) and line 361 runs.
AsyncReloaded(f) ==
  /\ pc[f] = "reload"
  /\ nextOid <= MaxObjects
  /\ LET destPath == Path("pluginDir", batch[f].plugin.id, "jpl")
         r == loadPluginFromPath(destPath, nextOid, tempDir, pluginDir)
         plugin == r.plugin
         loaded == r.error = "none"
         registers == loaded /\ installRegisters(Registry, plugin)
         rs == setPluginAt(RegState(heap, plugins_, snapshot.ref), plugin.id, plugin)
     IN  /\ tempDir' = r.tempDir
         /\ nextOid' = IF loaded THEN nextOid + 1 ELSE nextOid
         /\ heap' = IF registers THEN rs.heap ELSE heap
         /\ plugins_' = IF registers THEN rs.plugins_ ELSE plugins_
         /\ last' = Last("installPlugin", batch[f].path,
                         IF loaded THEN "ok" ELSE r.error,
                         IF loaded THEN plugin ELSE NoPlugin, r.extractions)
  /\ pc' = [pc EXCEPT ![f] = "idle"]
  /\ batch' = [batch EXCEPT ![f] = NoFlow]
  /\ UNCHANGED <<appVersion_, pluginDir, events, runs, snapshot>>

AsyncUninstallPlugin(f, pluginId) ==
  /\ pc[f] = "idle"
  /\ pc' = [pc EXCEPT ![f] = "uninstall"]
  /\ batch' = [batch EXCEPT ![f] = [NoFlow EXCEPT !.call = "uninstallPlugin",
                                                  !.path = pluginId]]
  /\ last' = Last("uninstallPlugin:enter", pluginId, "ok", NoPlugin, 0)
  /\ UNCHANGED <<appVersion_, heap, plugins_, tempDir, pluginDir, events, runs,
                 nextOid, snapshot>>

\* The directory listing and the removal settle (lines 380-386) and
\* deletePluginAt runs.
AsyncUninstalled(f) ==
  /\ pc[f] = "uninstall"
  /\ LET pluginId == batch[f].path
         u == uninstallPlugin(RegState(heap, plugins_, snapshot.ref), pluginDir,
                              pluginId)
     IN  /\ heap' = u.rs.heap
         /\ plugins_' = u.rs.plugins_
         /\ pluginDir' = u.pd
         /\ last' = Last("uninstallPlugin", pluginId,
                         IF u.found THEN "ok" ELSE "FileNotFoundOnUninstall",
                         IF pluginId \in DOMAIN Registry THEN Registry[pluginId]
                         ELSE NoPlugin,
                         0)
  /\ pc' = [pc EXCEPT ![f] = "idle"]
  /\ batch' = [batch EXCEPT ![f] = NoFlow]
  /\ UNCHANGED <<appVersion_, tempDir, events, runs, nextOid, snapshot>>

\* The bundle text a caller is about to hand to the parser.
BundleGiven(jsBundleString) == Last("bundle", jsBundleString, "ok", NoPlugin, 0)

\* parsePluginJsBundle on the text given; last.output is what it returns.
ParsePluginJsBundle ==
  /\ pc = "idle"
  /\ last.op = "bundle"
  /\ LET r == parsePluginJsBundle(last.arg)
     IN  last' = [Last("parsePluginJsBundle", last.arg,
                       IF r.ok THEN "ok" ELSE "ManifestNotFound", NoPlugin, 0)
                    EXCEPT !.output = r]
  /\ UNCHANGED <<appVersion_, heap, plugins_, tempDir, pluginDir, events, runs,
                 nextOid, pc, batch, snapshot>>

\* The arguments a caller is about to hand to loadPlugin.
ManifestGiven(manifestText, pluginIdIfNotSpecified) ==
  Last("manifest",
       [manifestText |-> manifestText,
        pluginIdIfNotSpecified |-> pluginIdIfNotSpecified],
       "ok", NoPlugin, 0)

\* loadPlugin on the arguments given; last.output is the plugin it returns
\* or the error it throws.
LoadPlugin ==
  /\ pc = "idle"
  /\ last.op = "manifest"
  /\ nextOid <= MaxObjects
  /\ LET r == loadPlugin(Path("src", <<>>, ""), last.arg.manifestText,
                         Script("s1"), last.arg.pluginIdIfNotSpecified,
                         nextOid, tempDir, 0)
     IN  /\ nextOid' = IF r.error = "none" THEN nextOid + 1 ELSE nextOid
         /\ last' = [Last("loadPlugin", last.arg,
                          IF r.error = "none" THEN "ok" ELSE r.error,
                          r.plugin, 0)
                       EXCEPT !.output = r]
  /\ UNCHANGED <<appVersion_, heap, plugins_, tempDir, pluginDir, events, runs,
                 pc, batch, snapshot>>

\* ------------------------------------------------------------ specifications
\* Settings as the application passes them to loadAndRunPlugins: no entry, or
\* one entry about the plugin "ab".
BatchSettings ==
  {s \in SettingsOfLen(0) \cup SettingsOfLen(1) :
     \A i \in DOMAIN s : s[i].id = Nameab /\ ~s[i].deleted}
DevModes == {TRUE}

\* The paths given to loadAndRunPlugins: the source plugins and one package.
BatchPaths ==
  DOMAIN SrcDirs \cup DOMAIN SrcBundles \cup {Path("src", NameX, "jpl")}

\* The service: loading batches of plugins, running, installing and
\* uninstalling them.
Next ==
  \/ \E settings \in BatchSettings, devMode \in DevModes :
       LoadAndRunPlugins(settings, devMode)
  \/ \E candidate \in BatchPaths, runnerThrows \in BOOLEAN :
       LoadAndRunPluginsCandidate(candidate, runnerThrows)
  \/ LoadAndRunPluginsReturn
  \/ \E pluginId \in UninstallIds, runnerThrows \in BOOLEAN :
       RunPlugin(pluginId, runnerThrows)
  \/ \E jplPath \in DOMAIN SrcPackages : InstallPlugin(jplPath)
  \/ \E pluginId \in UninstallIds : UninstallPlugin(pluginId)

Spec == Init /\ [][Next]_vars

\* The registry and a reader that holds on to the mapping it was given.
SnapshotPaths ==
  {Path("src", NameAb, ""), Path("src", NameAb, "js"), Path("src", NameX, "jpl")}

NextSnapshot ==
  \/ GetPlugins
  \/ LoadAndRunPlugins(<<>>, TRUE)
  \/ \E candidate \in SnapshotPaths : LoadAndRunPluginsCandidate(candidate, FALSE)
  \/ LoadAndRunPluginsReturn
  \/ InstallPlugin(Path("dl", NameX, "jpl"))
  \/ \E pluginId \in UninstallIds : UninstallPlugin(pluginId)

SpecSnapshot == Init /\ [][NextSnapshot]_vars

\* The settings sweep, on a registry filled by a batch and by installs.
NextSweep ==
  \/ LoadAndRunPlugins(<<>>, TRUE)
  \/ LoadAndRunPluginsCandidate(Path("src", NameAb, ""), FALSE)
  \/ LoadAndRunPluginsReturn
  \/ InstallPlugin(Path("src", NameX, "jpl"))
  \/ \E settings \in AllSettings : UninstallPlugins(settings)

SpecSweep == Init /\ [][NextSweep]_vars

\* Package loading: direct loads, installs that put and replace packages in
\* the plugin directory, uninstalls that remove them, and restarts.
PackagePaths == DOMAIN SrcPackages \cup {Path("pluginDir", IdP, "jpl")}

NextPackage ==
  \/ \E path \in PackagePaths : LoadPluginFromPackage(path, "none")
  \/ \E jplPath \in DOMAIN SrcPackages : InstallPlugin(jplPath)
  \/ UninstallPlugin(IdP)
  \/ Restart

SpecPackage == Init /\ [][NextPackage]_vars

\* ------------------------------------------------------------------- claims
RegisteredOids(registry) == {registry[k].oid : k \in DOMAIN registry}

\* A step that is one iteration of the loadAndRunPlugins loop.
CandidateStep == pc = "batch" /\ last'.op \in {"candidate", "loadAndRunPlugins"}
                 /\ last'.arg # <<>>
\* ... in which the candidate loaded to a plugin object.
CandidateLoaded == CandidateStep /\ last'.oid # 0
\* ... whose id no registry entry had.
CandidateFresh == CandidateLoaded /\ last'.id \notin DOMAIN Registry

\* Version m is greater than version h.
VersionExceeds(m, h) == m[1] > h[1] \/ (m[1] = h[1] /\ m[2] > h[2])

\* C1: in every reachable state no two registry entries have ids that
\* normalize (lower-cased, slugified) to the same id.
C1_NormalizedIdsUnique ==
  \A k1, k2 \in DOMAIN Registry :
    k1 # k2 => makePluginId(k1) # makePluginId(k2)

\* C2: when a candidate of loadAndRunPlugins loads to a plugin whose id is
\* already in the registry, the iteration ends with DuplicateId, the
\* registry is unchanged (the entry is the same object), the new object is
\* not registered, no event is dispatched and the runner is not invoked;
\* and no iteration of the loop removes or replaces an entry, so the one
\* entry of that id is there when the batch ends.
C2_DuplicateRejected ==
  [][CandidateStep =>
       /\ \A k \in DOMAIN Registry :
            k \in DOMAIN Registry' /\ Registry'[k].oid = Registry[k].oid
       /\ (CandidateLoaded /\ last'.id \in DOMAIN Registry) =>
            /\ last'.result = "DuplicateId"
            /\ DOMAIN Registry' = DOMAIN Registry
            /\ last'.oid \notin RegisteredOids(Registry')
            /\ events' = events
            /\ runs' = runs
            /\ last'.oid \notin events' \cup runs']_vars

C2_Witness ==
  /\ last.op = "candidate"
  /\ last.result = "DuplicateId"
  /\ last.id \in DOMAIN Registry
  /\ Registry[last.id].oid # last.oid
  /\ last.oid \notin events \cup runs

\* C3: every candidate that loads and does not collide is registered by its
\* iteration, whatever its run does; the loop goes on after every
\* iteration, and when the call returns it has thrown nothing and every
\* plugin object it registered is in the registry.
C3_FailureIsolation ==
  [][pc = "batch" =>
       /\ CandidateFresh =>
            /\ Registry'[last'.id].oid = last'.oid
            /\ pc' = "batch" => last'.oid \in batch'.ok
       /\ CandidateStep => pc' = "batch" /\ batch.ok \subseteq batch'.ok
       /\ pc' = "idle" =>
            /\ last'.op = "loadAndRunPlugins"
            /\ last'.result = "ok"
            /\ batch.ok \subseteq RegisteredOids(Registry')]_vars

\* A candidate registered and ran after another candidate of the same call
\* failed, and an earlier registration of the call is still there.
C3_Witness ==
  /\ pc = "batch"
  /\ batch.failed
  /\ last.op = "candidate"
  /\ last.result = "ok"
  /\ last.oid \in batch.ok
  /\ Cardinality(batch.ok) >= 2
  /\ batch.ok \subseteq RegisteredOids(Registry)

\* C6: runPlugin on a plugin whose app_min_version exceeds the host version
\* throws VersionTooOld, dispatches nothing and does not invoke the runner;
\* a registered plugin stays in the registry.
C6_VersionGate ==
  [][/\ (last'.op = "runPlugin"
         /\ VersionExceeds(Registry[last'.arg].manifest.app_min_version, appVersion_))
        => /\ last'.result = "VersionTooOld"
           /\ events' = events
           /\ runs' = runs
           /\ Registry' = Registry
     /\ (CandidateFresh
         /\ (\A i \in DOMAIN batch.settings :
               batch.settings[i].id = last'.id => batch.settings[i].enabled)
         /\ VersionExceeds(Registry'[last'.id].manifest.app_min_version, appVersion_))
        => /\ last'.result = "VersionTooOld"
           /\ events' = events
           /\ runs' = runs
           /\ last'.oid \notin events' \cup runs'
           /\ Registry'[last'.id].oid = last'.oid]_vars

C6_Witness ==
  /\ last.op = "candidate"
  /\ last.result = "VersionTooOld"
  /\ last.id \in DOMAIN Registry
  /\ Registry[last.id].oid = last.oid
  /\ VersionExceeds(Registry[last.id].manifest.app_min_version, appVersion_)
  /\ last.oid \notin events \cup runs

\* C7: a candidate that loads, does not collide and is disabled by its
\* settings entry is registered, and nothing is dispatched or run for it; a
\* candidate without a settings entry is run: when the host version allows
\* it, its event is dispatched and the runner is invoked for it.
C7_DisabledInert ==
  [][CandidateFresh =>
       /\ (\E i \in DOMAIN batch.settings :
             batch.settings[i].id = last'.id /\ ~batch.settings[i].enabled)
          => /\ Registry'[last'.id].oid = last'.oid
             /\ events' = events
             /\ runs' = runs
             /\ last'.oid \notin events' \cup runs'
       /\ ((\A i \in DOMAIN batch.settings : batch.settings[i].id # last'.id)
           /\ ~VersionExceeds(Registry'[last'.id].manifest.app_min_version,
                              appVersion_))
          => /\ last'.oid \in events'
             /\ last'.oid \in runs']_vars

C7_Witness ==
  /\ last.op = "candidate"
  /\ last.result = "disabled"
  /\ \E i \in DOMAIN batch.settings :
       batch.settings[i].id = last.id /\ ~batch.settings[i].enabled
  /\ last.id \in DOMAIN Registry
  /\ Registry[last.id].oid = last.oid
  /\ last.oid \notin events \cup runs

\* C10: installPlugin registers the plugin reloaded from
\* <pluginDir>/<id>.jpl only when the id has no entry; when it has one, the
\* registry is left as it was although <pluginDir>/<id>.jpl now holds the
\* new package; of the plugin objects the call constructs, the preloaded
\* one (loaded from the source path) is never registered.
C10_InstallKeepsOriginal ==
  [][(last'.op = "installPlugin" /\ last'.result = "ok") =>
       /\ pluginDir'[last'.id] = SrcPackages[last'.arg]
       /\ last'.id \in DOMAIN Registry => Registry' = Registry
       /\ last'.id \notin DOMAIN Registry =>
            /\ Registry'[last'.id].oid = last'.oid
            /\ Registry'[last'.id].baseDir = Path("tempDir", last'.id, "")
            /\ \A k \in DOMAIN Registry : Registry'[k] = Registry[k]
       /\ \A o \in nextOid..(nextOid' - 1) :
            o # last'.oid => o \notin RegisteredOids(Registry')]_vars

\* An install of package P2 over a registered plugin that came from P1.
C10_Witness ==
  /\ last.op = "installPlugin"
  /\ last.result = "ok"
  /\ last.id \in DOMAIN Registry
  /\ Registry[last.id].oid # last.oid
  /\ pluginDir[last.id] = "P2"
  /\ Registry[last.id].manifest.app_min_version = <<1, 4>>

\* C4: the settings uninstallPlugins returns hold no id that the input
\* flags deleted and hold every other entry of the input unchanged, and no
\* id flagged deleted has a registry entry afterwards.
C4_SweepDropsDeleted ==
  last.op = "uninstallPlugins" =>
    /\ \A i \in DOMAIN last.input :
         last.input[i].deleted =>
           /\ \A j \in DOMAIN last.output : last.output[j].id # last.input[i].id
           /\ last.input[i].id \notin DOMAIN Registry
    /\ \A i \in DOMAIN last.input :
         ~last.input[i].deleted =>
           \E j \in DOMAIN last.output : last.output[j] = last.input[i]

\* C5: uninstallPlugins leaves the settings object it was given as it was:
\* the same ids with the same enabled and deleted values.
C5_InputNotMutated ==
  last.op = "uninstallPlugins" => last.inputAfter = last.input

\* A sweep that uninstalled a registered plugin and returned other settings
\* than it was given.
C5_Witness ==
  /\ last.op = "uninstallPlugins"
  /\ \E i \in DOMAIN last.input : last.input[i].deleted
  /\ last.output # last.input
  /\ last.inputAfter = last.input
  /\ Registry = NoMapping
  /\ nextOid > 1

\* C8: the mapping a reader obtained from the plugins accessor keeps the
\* ids and entries it had when it was obtained.
C8_SnapshotIsolation ==
  snapshot.ref # NoRef => heap[snapshot.ref] = snapshot.taken

\* A reader's mapping that differs from the registry by an entry added and
\* an entry removed since.
C8_Witness ==
  /\ snapshot.ref # NoRef
  /\ heap[snapshot.ref] = snapshot.taken
  /\ \E k \in DOMAIN Registry : k \notin DOMAIN snapshot.taken
  /\ \E k \in DOMAIN snapshot.taken : k \notin DOMAIN Registry

\* The unpack target of the package file at path holds a manifest whose
\* _package_hash is the hash of that file.
CacheHoldsIn(path, td, pd) ==
  /\ packageAt(path, pd) # "none"
  /\ filename(path) \in DOMAIN td
  /\ Len(td[filename(path)].manifest) = 1
  /\ td[filename(path)].manifest[1].t = "json"
  /\ td[filename(path)].manifest[1].v._package_hash
       = Packages[packageAt(path, pd)].hash
CacheHolds(path) == CacheHoldsIn(path, tempDir, pluginDir)

\* C9: a loadPluginFromPackage call extracts nothing and leaves the target
\* alone exactly when the target holds a manifest stamped with the hash of
\* the package file; otherwise it extracts once and the target holds the
\* files of the package and nothing else.  A call that gets past the
\* missing-manifest check leaves the target stamped, so the next call on the
\* same file, in the same process or after a restart, extracts nothing.
C9_ExtractionCache ==
  [][last'.op = "loadPluginFromPackage" =>
       /\ CacheHolds(last'.arg) =>
            last'.extractions = 0 /\ tempDir' = tempDir
       /\ ~CacheHolds(last'.arg) =>
            /\ last'.extractions = 1
            /\ tempDir'[filename(last'.arg)].script
                 = Packages[packageAt(last'.arg, pluginDir)].script
            /\ tempDir'[filename(last'.arg)].distManifest = NoFile
            /\ tempDir'[filename(last'.arg)].distScript = NoFile
       /\ last'.result # "ExtractionFailure" =>
            CacheHoldsIn(last'.arg, tempDir', pluginDir')
       /\ (last.op = "loadPluginFromPackage"
           /\ last.result # "ExtractionFailure"
           /\ last.arg = last'.arg) => last'.extractions = 0
       /\ (last.op = "restart"
           /\ last.arg.op = "loadPluginFromPackage"
           /\ last.arg.result # "ExtractionFailure"
           /\ last.arg.arg = last'.arg) => last'.extractions = 0]_vars

\* A load that found the target stamped by an earlier extraction, while the
\* other package file of that name has another hash.
C9_Witness ==
  /\ last.op = "loadPluginFromPackage"
  /\ last.result = "ok"
  /\ last.extractions = 0
  /\ CacheHolds(last.arg)
  /\ \E path \in DOMAIN SrcPackages :
       filename(path) = filename(last.arg) /\ ~CacheHolds(path)

\* C11: after uninstallPlugin(id) the registry has no entry for id, whether
\* or not the plugin directory held a file for it; the file, if there was
\* one, is gone; and every entry of another id is the same as before, with
\* no entry added.
C11_UninstallRemovesEntry ==
  [][last'.op = "uninstallPlugin" =>
       /\ last'.arg \notin DOMAIN Registry'
       /\ last'.arg \notin DOMAIN pluginDir'
       /\ (last'.result = "ok") = (last'.arg \in DOMAIN pluginDir)
       /\ DOMAIN Registry' = DOMAIN Registry \ {last'.arg}
       /\ \A k \in DOMAIN Registry' : Registry'[k] = Registry[k]
       /\ \A f \in DOMAIN pluginDir \ {last'.arg} :
            f \in DOMAIN pluginDir' /\ pluginDir'[f] = pluginDir[f]]_vars

\* An uninstall that found no file has removed the entry of a registered
\* plugin and left another entry in the registry.
C11_Witness ==
  /\ last.op = "uninstallPlugin"
  /\ last.result = "FileNotFoundOnUninstall"
  /\ last.oid # 0
  /\ last.arg \notin DOMAIN Registry
  /\ Registry # NoMapping

\* ------------------------------------------------------------ bundle parser
\* The lines a bundle text is made of: code, the opening sentinel (bare and
\* indented), the closing sentinel (bare, and indented with text after it),
\* a blank line and an indented line of manifest JSON.
BundleLines ==
  {Line(FALSE, "code", NoObj), Line(FALSE, "open", NoObj),
   Line(TRUE, "open", NoObj), Line(FALSE, "close", NoObj),
   Line(TRUE, "closeTail", NoObj), Line(FALSE, "blank", NoObj),
   Line(TRUE, "json", ManifestObj(NoId, <<1, 4>>, NoHash))}

\* Texts of 1 to MaxLines lines.
BundleTexts == UNION {[1..n -> BundleLines] : n \in 1..MaxLines}

InitBundle ==
  /\ appVersion_ \in HostVersions
  /\ plugins_ = 1
  /\ heap = (1 :> NoMapping)
  /\ tempDir = <<>>
  /\ pluginDir = <<>>
  /\ events = {}
  /\ runs = {}
  /\ nextOid = 1
  /\ pc = "idle"
  /\ batch = NoBatch
  /\ snapshot = NoSnapshot
  /\ \E jsBundleString \in BundleTexts : last = BundleGiven(jsBundleString)

NextBundle == ParsePluginJsBundle

SpecBundle == InitBundle /\ [][NextBundle]_vars

\* The line without the whitespace around it.
Trimmed(line) == Line(FALSE, line.t, line.v)
IsOpening(line) == line.t = "open"
IsClosing(line) == line.t \in {"close", "closeTail"}
HasOpening(text) == \E i \in DOMAIN text : IsOpening(text[i])
\* The first opening-sentinel line.
FirstOpening(text) ==
  CHOOSE i \in DOMAIN text :
    IsOpening(text[i]) /\ \A j \in 1..(i - 1) : ~IsOpening(text[j])
HasClosing(text) ==
  \E i \in (FirstOpening(text) + 1)..Len(text) : IsClosing(text[i])
\* The first line after it that starts with the closing sentinel.
FirstClosing(text) ==
  CHOOSE i \in (FirstOpening(text) + 1)..Len(text) :
    IsClosing(text[i])
    /\ \A j \in (FirstOpening(text) + 1)..(i - 1) : ~IsClosing(text[j])
\* The text's first block is well formed: opening line, one or more lines,
\* closing line.
WellFormedBlock(text) ==
  /\ HasOpening(text)
  /\ HasClosing(text)
  /\ FirstClosing(text) > FirstOpening(text) + 1
\* The lines strictly between the two sentinels, trimmed.
BlockLines(text) ==
  [k \in 1..(FirstClosing(text) - FirstOpening(text) - 1) |->
     Trimmed(text[FirstOpening(text) + k])]

\* C12: for a bundle text with a well-formed sentinel block,
\* parsePluginJsBundle returns as manifest text exactly the lines strictly
\* between the first opening line and the first following closing line,
\* trimmed, in order (so no line before the opening or after the closing,
\* nor a later block), and as scriptText the whole input.
C12_ManifestBlockExtracted ==
  (last.op = "parsePluginJsBundle" /\ WellFormedBlock(last.arg)) =>
    /\ last.result = "ok"
    /\ last.output.manifestText = BlockLines(last.arg)
    /\ last.output.scriptText = last.arg

\* A parsed text with code before the block, an indented manifest line in
\* it, and a second opening sentinel after its closing line.
C12_Witness ==
  /\ last.op = "parsePluginJsBundle"
  /\ WellFormedBlock(last.arg)
  /\ FirstOpening(last.arg) > 1
  /\ \E k \in DOMAIN BlockLines(last.arg) :
       last.arg[FirstOpening(last.arg) + k].pad
  /\ \E i \in (FirstClosing(last.arg) + 1)..Len(last.arg) :
       IsOpening(last.arg[i])
  /\ last.output.manifestText = BlockLines(last.arg)

\* C13: parsePluginJsBundle fails with ManifestNotFound when the text has
\* no opening sentinel line, or when the opening line is directly followed
\* by a closing line or by the end of the text; and a manifest text it
\* returns is never the empty text.
C13_NoEmptyManifest ==
  last.op = "parsePluginJsBundle" =>
    /\ ~HasOpening(last.arg) => last.result = "ManifestNotFound"
    /\ (HasOpening(last.arg)
          /\ (FirstOpening(last.arg) = Len(last.arg)
               \/ IsClosing(last.arg[FirstOpening(last.arg) + 1])))
         => last.result = "ManifestNotFound"
    /\ last.result = "ok" => last.output.manifestText # EmptyText

\* ---------------------------------------------------------------- loadPlugin
\* Manifest texts: JSON with and without id and app_min_version, the empty
\* text and text that is not JSON; fallback ids, the empty one included.
LoadManifests ==
  {JSONstringify(ManifestObj(id, ver, NoHash)) :
     id \in {NoId, IdP, NameAb}, ver \in {NoVersion, <<1, 4>>, <<1, 5>>, <<2, 0>>}}
  \cup {EmptyText, <<Line(FALSE, "code", NoObj)>>}
FallbackIds == {NoId, NameAb, Nameab, NameX}

InitLoad ==
  /\ appVersion_ \in HostVersions
  /\ plugins_ = 1
  /\ heap = (1 :> NoMapping)
  /\ tempDir = <<>>
  /\ pluginDir = <<>>
  /\ events = {}
  /\ runs = {}
  /\ nextOid = 1
  /\ pc = "idle"
  /\ batch = NoBatch
  /\ snapshot = NoSnapshot
  /\ \E manifestText \in LoadManifests, pluginIdIfNotSpecified \in FallbackIds :
       last = ManifestGiven(manifestText, pluginIdIfNotSpecified)

NextLoad == LoadPlugin

SpecLoad == InitLoad /\ [][NextLoad]_vars

\* 1 if the condition holds, else 0.
Count(b) == IF b THEN 1 ELSE 0

\* C14: a plugin loadPlugin returns has a non-empty id and an
\* app_min_version: the manifest's, or the baseline 1.4 / the fallback id
\* where the manifest has none, with one deprecation notice per value
\* defaulted and no other notice; when the manifest has no id and the
\* fallback id is empty, loadPlugin throws MissingPluginId; and a call that
\* throws returns no plugin.
C14_ManifestNormalized ==
  last.op = "loadPlugin" =>
    LET r == last.output
        given == last.arg
        decodes == JSONparses(given.manifestText)
        raw == JSONparse(given.manifestText)
    IN  /\ r.error = "none" =>
             /\ decodes
             /\ r.plugin.id # NoId
             /\ r.plugin.manifest.id = r.plugin.id
             /\ r.plugin.manifest.app_min_version # NoVersion
             /\ r.plugin.id =
                  (IF raw.id = NoId THEN given.pluginIdIfNotSpecified ELSE raw.id)
             /\ r.plugin.manifest.app_min_version =
                  (IF raw.app_min_version = NoVersion THEN <<1, 4>>
                   ELSE raw.app_min_version)
             /\ Len(r.plugin.deprecationNotices) =
                  Count(raw.app_min_version = NoVersion) + Count(raw.id = NoId)
        /\ (decodes /\ raw.id = NoId /\ given.pluginIdIfNotSpecified = NoId)
             => r.error = "MissingPluginId"
        /\ r.error # "none" => r.plugin = NoPlugin

\* A manifest missing only app_min_version was loaded: baseline version,
\* one notice.
C14_Witness ==
  /\ last.op = "loadPlugin"
  /\ last.result = "ok"
  /\ JSONparse(last.arg.manifestText).app_min_version = NoVersion
  /\ JSONparse(last.arg.manifestText).id # NoId
  /\ last.output.plugin.manifest.app_min_version = <<1, 4>>
  /\ Len(last.output.plugin.deprecationNotices) = 1

\* C15: an iteration of the loadAndRunPlugins loop on a candidate whose
\* file name begins with "_" loads nothing (no plugin object, no unpacking),
\* registers nothing, dispatches nothing and runs nothing, and the loop goes
\* on with its record of the batch as it was.
C15_MarkedCandidateSkipped ==
  [][(CandidateStep /\ Len(filename(last'.arg)) > 0
        /\ Head(filename(last'.arg)) = "_") =>
       /\ last'.result = "skipped"
       /\ last'.oid = 0
       /\ UNCHANGED <<heap, plugins_, tempDir, pluginDir, events, runs, nextOid,
                      batch>>
       /\ pc' = "batch"]_vars

\* A marked candidate was skipped in a batch that had registered a plugin
\* before it.
C15_Witness ==
  /\ last.op = "candidate"
  /\ last.result = "skipped"
  /\ Head(filename(last.arg)) = "_"
  /\ batch.ok # {}

\* C16: when loadPluginFromPackage misses the cache and the extracted
\* archive holds no manifest, it throws ExtractionFailure, returns no plugin
\* and leaves the unpack target empty.
C16_FailedExtractionWiped ==
  (last.op = "loadPluginFromPackage" /\ last.result = "ExtractionFailure") =>
    /\ last.oid = 0
    /\ filename(last.arg) \in DOMAIN tempDir
    /\ tempDir[filename(last.arg)] = EmptyDir

\* ------------------------------------------------- package loads that fail
\* Package loads in which file-system calls may fail, and restarts.
NextFault ==
  \/ \E path \in DOMAIN SrcPackages, fault \in Faults :
       LoadPluginFromPackage(path, fault)
  \/ Restart

SpecFault == Init /\ [][NextFault]_vars

\* What a load that failed in its miss path throws.
MissPathFailures ==
  {"RemoveFailed", "MkdirFailed", "ExtractFailed", "ExtractionFailure",
   "WriteFailed"}

\* C17: after a loadPluginFromPackage that failed in its miss path (in the
\* removal, in mkdir, in the extraction, on the missing manifest, or in the
\* write of the stamped manifest) the target does not hold the cache of that
\* package, and the next load of the same file extracts again unless its own
\* removal fails; and a target comes to hold the cache of a package only
\* by a load of that package that extracted and did not fail in the miss
\* path.
C17_FailedLoadLeavesNoCache ==
  [][/\ (last'.op = "loadPluginFromPackage"
         /\ last'.result \in MissPathFailures)
          => ~CacheHoldsIn(last'.arg, tempDir', pluginDir')
     /\ (last.op = "loadPluginFromPackage"
         /\ last.result \in MissPathFailures
         /\ last'.op = "loadPluginFromPackage"
         /\ last'.arg = last.arg
         /\ last'.result \notin {"RemoveFailed", "MkdirFailed"})
          => last'.extractions = 1
     /\ \A path \in DOMAIN SrcPackages :
          (~CacheHolds(path) /\ CacheHoldsIn(path, tempDir', pluginDir'))
           => /\ last'.op = "loadPluginFromPackage"
              /\ last'.arg = path
              /\ last'.result \notin MissPathFailures
              /\ last'.extractions = 1]_vars

\* A load failed in the write of the stamp, in a target that an earlier
\* load of the other package of that name had stamped.
C17_Witness ==
  /\ last.op = "loadPluginFromPackage"
  /\ last.result = "WriteFailed"
  /\ ~CacheHolds(last.arg)
  /\ filename(last.arg) \in DOMAIN tempDir
  /\ tempDir[filename(last.arg)].manifest # NoFile
  /\ nextOid > 1

\* C19: every registry entry is stored under the id of the plugin it holds.
C19_KeyIsPluginId ==
  \A k \in DOMAIN Registry : Registry[k].id = k

\* The registry holds a plugin registered by installPlugin and a plugin
\* registered by loadAndRunPlugins under an id that is not normalized,
\* after an uninstallPlugin.
C19_Witness ==
  /\ IdP \in DOMAIN Registry
  /\ NameAb \in DOMAIN Registry
  /\ Registry[NameAb].id = NameAb
  /\ last.op = "uninstallPlugin"
  /\ last.oid # 0

\* ------------------------------------------------- calls in flight together
\* Two callers; batches over two directories, a package and a marked
\* bundle that declare two ids between them, installs of a package with
\* the id of the first package, uninstalls of that id.
AsyncPaths ==
  {Path("src", NameAb, ""), Path("src", Nameab, ""), Path("src", NameX, "jpl"),
   Path("src", NameOff, "js")}

NextAsync ==
  \E f \in Flows :
    \/ AsyncLoadAndRunPlugins(f, <<>>, TRUE)
    \/ \E candidate \in AsyncPaths : AsyncCandidate(f, candidate)
    \/ AsyncCandidateLoaded(f)
    \/ \E handle \in batch[f].pending, runnerThrows \in BOOLEAN :
         AsyncRunSettled(f, handle, runnerThrows)
    \/ AsyncReturn(f)
    \/ AsyncInstallPlugin(f, Path("dl", NameX, "jpl"))
    \/ AsyncPreloaded(f)
    \/ AsyncCopied(f)
    \/ AsyncReloaded(f)
    \/ AsyncUninstallPlugin(f, IdP)
    \/ AsyncUninstalled(f)

SpecAsync == InitAsync /\ [][NextAsync]_vars

\* C18: in a loadAndRunPlugins call the load of a candidate starts only
\* when no iteration of that call is under way: no candidate is being
\* loaded and no handle returned by the runner is unsettled; and a step
\* that registers a plugin for the call is the one in which the load of the
\* only candidate under way settles.  So the candidates are loaded,
\* registered and run one after the other, in list order.
C18_OneCandidateAtATime ==
  [][\A f \in Flows :
       /\ (pc'[f] = "load" /\ pc[f] # "load") =>
            /\ pc[f] = "loop"
            /\ batch[f].inflight = {}
            /\ batch[f].pending = {}
       /\ (pc[f] = "load" /\ pc'[f] # "load") =>
            /\ batch[f].inflight = {batch[f].path}
            /\ last'.arg = batch[f].path
            /\ RegisteredOids(Registry') \ RegisteredOids(Registry)
                 \subseteq {last'.oid}
            /\ pc'[f] = "run" => batch'[f].pending # {}
       /\ Cardinality(batch'[f].inflight) <= 1]_vars

\* A second candidate of a batch is being loaded after the run of the
\* first has settled, while the other caller's batch waits for a run.
C18_Witness ==
  \E f, g \in Flows :
    /\ f # g
    /\ pc[f] = "load"
    /\ runs # {}
    /\ batch[f].pending = {}
    /\ RegisteredOids(Registry) \cap runs # {}
    /\ pc[g] = "run"

\* C20: with calls of loadAndRunPlugins, installPlugin and uninstallPlugin
\* in flight together, no step replaces the plugin object of a registered
\* id, and an id leaves the registry only in the step in which an
\* uninstallPlugin of that id completes.
C20_EntryNeverReplaced ==
  [][\A k \in DOMAIN Registry :
       /\ k \in DOMAIN Registry' => Registry'[k].oid = Registry[k].oid
       /\ k \notin DOMAIN Registry' =>
            last'.op = "uninstallPlugin" /\ last'.arg = k]_vars

\* The load of a candidate settled on an id that the install of the other
\* caller, started before that load, had registered meanwhile.
C20_Witness ==
  /\ last.op = "candidate"
  /\ last.result = "DuplicateId"
  /\ last.id = IdP
  /\ Registry[IdP].baseDir.name = IdP
  /\ \E f \in Flows : pc[f] = "loop" /\ batch[f].inflight = {}

====
